---- MODULE Spec2Model ----
(***************************************************************************)
(* ssh-copy-id for Windows (ssh-copy-id.c): one invocation of the program  *)
(* is a run; consecutive runs share only the remote authorized_keys file.  *)
(* C strings are sequences of one-character strings.                       *)
(***************************************************************************)
EXTENDS Integers, Sequences, FiniteSets, TLC

VARIABLES
    pc,            \* position in main: "args", "main", "test", "mkdir", "check",
                   \* "append", "keytest", "done"
    runs,          \* invocations of the program started so far
    opts,          \* Options opts
    target_found,  \* parse_args: target_found
    argi,          \* parse_args: argv entries consumed
    env,           \* what main found on the machine: Null until it looks, then
                   \* Some([ssh |-> "where ssh" succeeded, pub |-> the key file,
                   \* files |-> the other files on disk when main looks for
                   \* the private key])
    home,          \* getenv("USERPROFILE") as first read: Null or Some(dir)
    key_path,      \* main: key_path
    key_content,   \* main: key_content
    exitCode,      \* exit status of the process, set when pc = "done"
    calls,         \* ssh command lines run by this invocation, in order
    out,           \* messages written to stdout by this invocation
    err,           \* messages written to stderr by this invocation
    remote,        \* content of the remote ~/.ssh/authorized_keys
    prev,          \* summary of the previous invocation: <<>> or <<record>>
    fn_in,         \* SpecEscape, SpecKeyPath: the text a function is applied to
    fn_out         \* SpecEscape, SpecKeyPath: what the function returned

vars == <<pc, runs, opts, target_found, argi, env, home, key_path, key_content,
          exitCode, calls, out, err, remote, prev, fn_in, fn_out>>

(* ------------------------------ bounds --------------------------------- *)
\* number of consecutive invocations of the program against one remote
MaxRuns == 2
\* number of argv entries after argv[0]
MaxArgs == 3
\* SpecKeyPath: number of pieces ("k", "/", ".pub") an identity path is made of
MaxPieces == 4
\* SpecEscape: the size of key_content and of escaped_key, which the program
\* both declares with MAX_KEY_SIZE bytes, scaled down
KeyBufSize == 8

(* -------------------------- program constants -------------------------- *)
MAX_PATH_LEN == 4096
MAX_CMD_LEN == 8192
MAX_KEY_SIZE == 65536
USER_SIZE == 256
HOST_SIZE == 256
SSH_OPTIONS_SIZE == 1024
DEFAULT_PORT == 22

(* ------------------------------ C strings ------------------------------ *)
\* an optional value (a pointer that may be NULL): <<>> or <<v>>
Null == <<>>
Some(v) == <<v>>

\* strncpy(dst, src, n) followed by dst[n] = '\0'
strncpy(src, n) == IF Len(src) > n THEN SubSeq(src, 1, n) ELSE src

\* strstr(haystack, needle): 0 for NULL, else the 1-based position of the
\* first occurrence; the empty needle is found at position 1
strstr(haystack, needle) ==
    LET hits == {i \in 1..(Len(haystack) - Len(needle) + 1) :
                    SubSeq(haystack, i, i + Len(needle) - 1) = needle}
    IN IF hits = {} THEN 0 ELSE CHOOSE i \in hits : \A j \in hits : i <= j

\* strchr(s, c): 0 for NULL, else the position of the first c
strchr(s, c) ==
    LET hits == {i \in 1..Len(s) : s[i] = c}
    IN IF hits = {} THEN 0 ELSE CHOOSE i \in hits : \A j \in hits : i <= j

IsSpace(c) == c \in {" ", "\t", "\n", "\r"}

RECURSIVE SkipLeading(_)
SkipLeading(s) ==
    IF s # <<>> /\ IsSpace(Head(s)) THEN SkipLeading(Tail(s)) ELSE s

RECURSIVE DropTrailing(_)
DropTrailing(s) ==
    IF Len(s) > 1 /\ IsSpace(s[Len(s)])
    THEN DropTrailing(SubSeq(s, 1, Len(s) - 1))
    ELSE s

trim_string(str) ==
    LET start == SkipLeading(str)
    IN IF start = <<>> THEN <<>> ELSE DropTrailing(start)

Digits == <<"0", "1", "2", "3", "4", "5", "6", "7", "8", "9">>
IsDigit(c) == \E d \in 1..10 : Digits[d] = c
DigitVal(c) == (CHOOSE d \in 1..10 : Digits[d] = c) - 1

RECURSIVE AtoiDigits(_, _)
AtoiDigits(s, acc) ==
    IF s # <<>> /\ IsDigit(Head(s))
    THEN AtoiDigits(Tail(s), acc * 10 + DigitVal(Head(s)))
    ELSE acc

\* atoi: leading white space, an optional sign, then the leading digits
atoi(s) ==
    LET t == SkipLeading(s)
    IN IF t # <<>> /\ Head(t) = "-" THEN 0 - AtoiDigits(Tail(t), 0)
       ELSE IF t # <<>> /\ Head(t) = "+" THEN AtoiDigits(Tail(t), 0)
       ELSE AtoiDigits(t, 0)

(* ------------------------------- options ------------------------------- *)
\* memset(opts, 0, sizeof(Options)); opts->port = 22
ZeroOpts ==
    [user |-> <<>>, host |-> <<>>, port |-> DEFAULT_PORT,
     identity_file |-> <<>>, key_file |-> <<>>,
     force |-> FALSE, dry_run |-> FALSE, quiet |-> FALSE,
     ssh_options |-> <<>>, ssh_config |-> <<>>]

\* parse_target(target, opts) with getenv("USERNAME") = username
parse_target(target, o, username) ==
    LET at_sign == strchr(target, "@")
    IN IF at_sign # 0
       THEN [o EXCEPT !.user = strncpy(SubSeq(target, 1, at_sign - 1), USER_SIZE - 1),
                      !.host = strncpy(SubSeq(target, at_sign + 1, Len(target)), HOST_SIZE - 1)]
       ELSE [o EXCEPT !.user = IF username # Null
                               THEN strncpy(username[1], USER_SIZE - 1)
                               ELSE <<"u", "s", "e", "r">>,
                      !.host = strncpy(target, HOST_SIZE - 1)]

(* --------------------------- command line ------------------------------ *)
OptHelp == {<<"-", "h">>, <<"-", "-", "h", "e", "l", "p">>}
OptIdentity == {<<"-", "i">>,
                <<"-", "-", "i", "d", "e", "n", "t", "i", "t", "y", "_", "f", "i", "l", "e">>}
OptPort == {<<"-", "p">>, <<"-", "-", "p", "o", "r", "t">>}
OptForce == {<<"-", "f">>, <<"-", "-", "f", "o", "r", "c", "e">>}
OptDryRun == {<<"-", "n">>, <<"-", "-", "d", "r", "y", "_", "r", "u", "n">>}
OptQuiet == {<<"-", "q">>, <<"-", "-", "q", "u", "i", "e", "t">>}
OptSshOptions == {<<"-", "o">>,
                  <<"-", "-", "s", "s", "h", "_", "o", "p", "t", "i", "o", "n", "s">>}
OptSshConfig == {<<"-", "F">>,
                 <<"-", "-", "s", "s", "h", "_", "c", "o", "n", "f", "i", "g">>}

\* argv[i][0] != '-' (the first char of the empty string is the terminator)
NotDash(tok) == tok = <<>> \/ Head(tok) # "-"

\* One iteration of the loop of parse_args on argv[i] = tok; more is
\* (i + 1 < argc) and val is argv[i + 1].  used is the number of argv
\* entries consumed; status is "next", "help" (exit(0)) or "unknown" (return -1).
parse_arg(o, tf, tok, more, val, username) ==
    IF tok \in OptHelp
    THEN [o |-> o, tf |-> tf, used |-> 1, status |-> "help"]
    ELSE IF tok \in OptIdentity
    THEN IF more
         THEN [o |-> [o EXCEPT !.identity_file = strncpy(val, MAX_PATH_LEN - 1)],
               tf |-> tf, used |-> 2, status |-> "next"]
         ELSE [o |-> o, tf |-> tf, used |-> 1, status |-> "next"]
    ELSE IF tok \in OptPort
    THEN IF more
         THEN [o |-> [o EXCEPT !.port = atoi(val)],
               tf |-> tf, used |-> 2, status |-> "next"]
         ELSE [o |-> o, tf |-> tf, used |-> 1, status |-> "next"]
    ELSE IF tok \in OptForce
    THEN [o |-> [o EXCEPT !.force = TRUE], tf |-> tf, used |-> 1, status |-> "next"]
    ELSE IF tok \in OptDryRun
    THEN [o |-> [o EXCEPT !.dry_run = TRUE], tf |-> tf, used |-> 1, status |-> "next"]
    ELSE IF tok \in OptQuiet
    THEN [o |-> [o EXCEPT !.quiet = TRUE], tf |-> tf, used |-> 1, status |-> "next"]
    ELSE IF tok \in OptSshOptions
    THEN IF more
         THEN [o |-> [o EXCEPT !.ssh_options = strncpy(val, SSH_OPTIONS_SIZE - 1)],
               tf |-> tf, used |-> 2, status |-> "next"]
         ELSE [o |-> o, tf |-> tf, used |-> 1, status |-> "next"]
    ELSE IF tok \in OptSshConfig
    THEN IF more
         THEN [o |-> [o EXCEPT !.ssh_config = strncpy(val, MAX_PATH_LEN - 1)],
               tf |-> tf, used |-> 2, status |-> "next"]
         ELSE [o |-> o, tf |-> tf, used |-> 1, status |-> "next"]
    ELSE IF NotDash(tok) /\ ~tf
    THEN [o |-> parse_target(tok, o, username), tf |-> TRUE, used |-> 1, status |-> "next"]
    ELSE [o |-> o, tf |-> tf, used |-> 1, status |-> "unknown"]

\* the check after the loop of parse_args: no host was given
MissingHost(o, tf) == ~tf /\ o.host = <<>>

(* ----------------------------- key file -------------------------------- *)
DotPub == <<".", "p", "u", "b">>
DefaultKeyTail == <<"\\", ".", "s", "s", "h", "\\", "i", "d", "_", "r", "s", "a",
                    ".", "p", "u", "b">>

\* get_home_dir(): getenv("USERPROFILE") copied into a MAX_PATH_LEN buffer
get_home_dir(userprofile) ==
    IF userprofile # Null THEN Some(strncpy(userprofile[1], MAX_PATH_LEN - 1)) ELSE Null

\* get_public_key_path(opts, key_path, MAX_PATH_LEN)
get_public_key_path(o, userprofile) ==
    LET home_dir == get_home_dir(userprofile)
        size == MAX_PATH_LEN
        fromIdentity ==
            LET p == strncpy(o.identity_file, size - 1)
            IN IF strstr(p, DotPub) = 0
               THEN p \o strncpy(DotPub, size - Len(p) - 1)
               ELSE p
        path0 == IF o.key_file # <<>> THEN strncpy(o.key_file, size - 1)
                 ELSE IF o.identity_file # <<>> THEN fromIdentity
                 ELSE strncpy((IF home_dir # Null THEN home_dir[1] ELSE <<".">>)
                              \o DefaultKeyTail, size - 1)
    IN IF path0 # <<>> /\ Head(path0) = "~"
       THEN strncpy(strncpy((IF home_dir # Null THEN home_dir[1] ELSE <<>>)
                            \o Tail(path0), MAX_PATH_LEN - 1), size - 1)
       ELSE path0

\* the private key path: the key path cut at the first ".pub"
StripPub(path) ==
    LET pub_pos == strstr(path, DotPub)
    IN IF pub_pos # 0 THEN SubSeq(path, 1, pub_pos - 1) ELSE path

\* file_exists(path): stat succeeds on the key file when it is there and on
\* the other files of the disk
file_exists(path, pub_path, pub, files) ==
    (path = pub_path /\ pub # Null) \/ path \in files

\* read_public_key(key_path, key_content, MAX_KEY_SIZE): file is Null when
\* fopen fails, else Some(bytes of the file)
read_public_key(file) ==
    IF file = Null THEN [rc |-> -1, key |-> <<>>]
    ELSE LET bytes == strncpy(file[1], MAX_KEY_SIZE - 1)
         IN IF Len(bytes) = 0 THEN [rc |-> -1, key |-> <<>>]
            ELSE [rc |-> 0, key |-> trim_string(bytes)]

(* --------------------------- shell escaping ---------------------------- *)
Quote == "'"
EscapedQuote == <<"'", "\\", "'", "'">>

\* the escaping loop of copy_key_to_server; remaining starts at size - 1
RECURSIVE EscapeLoop(_, _, _)
EscapeLoop(src, dst, remaining) ==
    IF src # <<>> /\ remaining > 1
    THEN IF Head(src) = Quote
         THEN IF remaining >= 5
              THEN EscapeLoop(Tail(src), dst \o EscapedQuote, remaining - 4)
              ELSE EscapeLoop(Tail(src), dst, remaining)
         ELSE EscapeLoop(Tail(src), Append(dst, Head(src)), remaining - 1)
    ELSE dst

escape_key(key, size) == EscapeLoop(key, <<>>, size - 1)

\* What the remote shell makes of the word '<escaped>': inside single quotes
\* every character is literal up to the next quote; outside, a backslash
\* makes the next character literal.  ok is FALSE when the word ends inside
\* quotes or an unquoted character ends it early.
RECURSIVE ShWord(_, _, _)
ShWord(s, inq, acc) ==
    IF s = <<>> THEN [ok |-> ~inq, text |-> acc]
    ELSE IF inq
    THEN IF Head(s) = Quote THEN ShWord(Tail(s), FALSE, acc)
         ELSE ShWord(Tail(s), TRUE, Append(acc, Head(s)))
    ELSE IF Head(s) = Quote THEN ShWord(Tail(s), TRUE, acc)
    ELSE IF Head(s) = "\\"
    THEN IF Len(s) >= 2 THEN ShWord(Tail(Tail(s)), FALSE, Append(acc, s[2]))
         ELSE [ok |-> FALSE, text |-> acc]
    ELSE [ok |-> FALSE, text |-> acc]

\* echo '<escaped>' >> ~/.ssh/authorized_keys on the remote
RemoteEcho(escaped, file) ==
    LET w == ShWord(<<Quote>> \o escaped \o <<Quote>>, FALSE, <<>>)
    IN [ok |-> w.ok, file |-> file \o w.text \o <<"\n">>]

(* --------------------------- ssh invocations --------------------------- *)
\* "-p %d " is put on the command line
PortFlag(o) == IF o.port > 0 /\ o.port # DEFAULT_PORT THEN Some(o.port) ELSE Null
\* "-F \"%s\" "
ConfigFlag(o) == IF o.ssh_config # <<>> THEN Some(o.ssh_config) ELSE Null
\* "-o %s "
OptionsFlag(o) == IF o.ssh_options # <<>> THEN Some(o.ssh_options) ELSE Null

\* the command line of run_ssh_command(opts, "exit 0")
RunSshCommandCall(o, rc) ==
    [op |-> "test", config |-> ConfigFlag(o), port |-> PortFlag(o),
     options |-> OptionsFlag(o), identity |-> Null,
     user |-> o.user, host |-> o.host, rc |-> rc, output |-> <<>>]

\* the command lines built by copy_key_to_server; output is what _popen reads
CopyKeyCall(op, o, rc, output) ==
    [op |-> op, config |-> ConfigFlag(o), port |-> PortFlag(o),
     options |-> Null, identity |-> Null,
     user |-> o.user, host |-> o.host, rc |-> rc, output |-> output]

\* the command line built by test_connection
TestConnectionCall(o, userprofile, rc) ==
    [op |-> "keytest", config |-> ConfigFlag(o), port |-> PortFlag(o),
     options |-> Null,
     identity |-> Some(StripPub(get_public_key_path(o, userprofile))),
     user |-> o.user, host |-> o.host, rc |-> rc, output |-> <<>>]

(* ----------------------------- decisions ------------------------------- *)
\* variant: the dry run is honoured only without --force
IsDryRunUnlessForce(o) == o.dry_run /\ ~o.force
\* variant: the dry-run flag is never looked at
IsDryRunNever(o) == FALSE
\* if (opts.dry_run)
IsDryRun(o) == o.dry_run

\* variant: the status of the connectivity test is dropped
ConnectFailedIgnored(rc) == FALSE
\* if (result != 0) after run_ssh_command
ConnectFailed(rc) == rc # 0

\* variant: the existing keys are checked even with --force
ForcePathNever(o) == FALSE
\* if (opts->force)
ForcePath(o) == o.force

\* variant: the key is found only as a whole line of the remote file
KeyExistsWholeLine(existing_keys, key) ==
    \E i \in 1..(Len(existing_keys) - Len(key) + 1) :
        /\ SubSeq(existing_keys, i, i + Len(key) - 1) = key
        /\ (i = 1 \/ existing_keys[i - 1] = "\n")
        /\ (i + Len(key) > Len(existing_keys) \/ existing_keys[i + Len(key)] = "\n")
\* if (strstr(existing_keys, key_content))
KeyExists(existing_keys, key) == strstr(existing_keys, key) # 0

\* if (result == 0) after copy_key_to_server
CopySucceeded(res) == res = 0

\* variant: a failed key test makes the process exit 1
ExitWithKeyTestStatus(rc) == IF rc = 0 THEN 0 ELSE 1
\* the exit status of main once the copy succeeded, whatever the key test gave
ExitAfterKeyTest(rc) == 0

(* ------------------------------- inputs -------------------------------- *)
ArgTokens ==
    {<<"-", "h">>, <<"-", "i">>, <<"-", "p">>, <<"-", "f">>,
     <<"-", "-", "f", "o", "r", "c", "e">>, <<"-", "n">>,
     <<"-", "-", "d", "r", "y", "_", "r", "u", "n">>, <<"-", "q">>,
     <<"-", "o">>, <<"-", "F">>, <<"-", "x">>,
     <<"h">>, <<"a", "@", "h">>, <<"a", "@">>}
IdentityArgs == {<<"k">>, <<"k", ".", "p", "u", "b">>,
                 <<"k", ".", "p", "u", "b", "x">>}
PortArgs == {<<"2", "2">>, <<"2", "3">>, <<"x">>}
SshOptionArgs == {<<"X">>}
SshConfigArgs == {<<"c">>}
ArgValues(tok) ==
    IF tok \in OptIdentity THEN IdentityArgs
    ELSE IF tok \in OptPort THEN PortArgs
    ELSE IF tok \in OptSshOptions THEN SshOptionArgs
    ELSE IF tok \in OptSshConfig THEN SshConfigArgs
    ELSE {<<>>}
TakesValue(tok) == tok \in OptIdentity \cup OptPort \cup OptSshOptions \cup OptSshConfig
UserNames == {Null, Some(<<"u">>)}
\* USERPROFILE is set on every Windows logon session
UserProfiles == {Some(<<"H">>)}
\* the public key file: Null when it cannot be opened, else its bytes
KeyFiles == {Null, Some(<<>>), Some(<<" ", "\n">>), Some(<<"a", "\n">>),
             Some(<<" ", "a", "b", "\n">>)}
\* files that may exist next to the public key
OtherFiles == {<<"k">>,
               <<"H", "\\", ".", "s", "s", "h", "\\", "i", "d", "_", "r", "s", "a">>}
RemoteFiles == {<<>>, <<"x", "a", "b", "\n">>}
ExitStatuses == {0, 1}

(* ------------------------------- state --------------------------------- *)
Init ==
    /\ pc = "args"
    /\ runs = 1
    /\ opts = ZeroOpts
    /\ target_found = FALSE
    /\ argi = 0
    /\ env = Null
    /\ home = Null
    /\ key_path = <<>>
    /\ key_content = <<>>
    /\ exitCode = 0
    /\ calls = <<>>
    /\ out = {}
    /\ err = {}
    /\ remote \in RemoteFiles
    /\ prev = <<>>
    /\ fn_in = <<>>
    /\ fn_out = <<>>

Exit(code) == pc' = "done" /\ exitCode' = code

\* parse_args, one iteration of the for loop (lines 329-372); on "help" the
\* process exits 0, on "unknown" parse_args returns -1 and main returns 1
ParseArg ==
    /\ pc = "args"
    /\ argi < MaxArgs
    /\ \E tok \in ArgTokens, more \in BOOLEAN, username \in UserNames :
         \E val \in ArgValues(tok) :
           LET r == parse_arg(opts, target_found, tok, more, val, username)
           IN /\ argi + r.used <= MaxArgs
              /\ TakesValue(tok) \/ ~more
              /\ opts' = r.o
              /\ target_found' = r.tf
              /\ argi' = argi + r.used
              /\ IF r.status = "help"
                 THEN Exit(0) /\ out' = out \cup {"help"} /\ err' = err
                 ELSE IF r.status = "unknown"
                 THEN Exit(1) /\ out' = out \cup {"help"}
                      /\ err' = err \cup {"Unknown option"}
                 ELSE pc' = pc /\ exitCode' = exitCode /\ out' = out /\ err' = err
    /\ UNCHANGED <<runs, env, home, key_path, key_content, calls, remote, prev>>
    /\ UNCHANGED <<fn_in, fn_out>>

\* parse_args after the loop (lines 374-380) and main on its return (394-397)
ArgsEnd ==
    /\ pc = "args"
    /\ IF MissingHost(opts, target_found)
       THEN Exit(1) /\ err' = err \cup {"No host specified"}
            /\ out' = out \cup {"help"}
       ELSE pc' = "main" /\ exitCode' = exitCode /\ err' = err /\ out' = out
    /\ UNCHANGED <<runs, opts, target_found, argi, env, home, key_path, key_content,
                   calls, remote, prev>>
    /\ UNCHANGED <<fn_in, fn_out>>

\* main from the check of the ssh client to the read of the public key
\* (lines 399-444)
Prepare ==
    /\ pc = "main"
    /\ \E ssh_installed \in BOOLEAN, userprofile \in UserProfiles,
          file \in KeyFiles, files \in SUBSET OtherFiles :
         LET path == get_public_key_path(opts, userprofile)
             banner == IF opts.quiet THEN {} ELSE {"Copying key"}
             rd == read_public_key(file)
             looked == ssh_installed /\ ~IsDryRun(opts) /\ rd.rc # 0
             private_exists == file_exists(StripPub(path), path, file, files)
         IN /\ env' = Some([ssh |-> ssh_installed, pub |-> file,
                            files |-> IF looked THEN files ELSE {}])
            /\ IF ~ssh_installed
               THEN /\ Exit(1)
                    /\ err' = err \cup {"SSH client not found"}
                    /\ UNCHANGED <<home, key_path, key_content, out>>
               ELSE /\ home' = userprofile
                    /\ key_path' = path
                    /\ IF IsDryRun(opts)
                       THEN /\ Exit(0)
                            /\ out' = out \cup banner \cup {"[DRY RUN]"}
                            /\ UNCHANGED <<key_content, err>>
                       ELSE IF rd.rc # 0
                       THEN /\ Exit(1)
                            /\ out' = out \cup banner
                            /\ err' = err \cup {"Public key not found"}
                                   \cup (IF private_exists
                                         THEN {"Private key found", "Generate public key"}
                                         ELSE {})
                            /\ UNCHANGED key_content
                       ELSE /\ key_content' = rd.key
                            /\ out' = out \cup banner
                                   \cup (IF opts.quiet THEN {} ELSE {"Testing connection..."})
                            /\ pc' = "test"
                            /\ UNCHANGED <<exitCode, err>>
    /\ UNCHANGED <<runs, opts, target_found, argi, calls, remote, prev>>
    /\ UNCHANGED <<fn_in, fn_out>>

\* main: run_ssh_command(&opts, "exit 0") and the check of its result
\* (lines 451-456)
TestConnection ==
    /\ pc = "test"
    /\ \E rc \in ExitStatuses :
         /\ calls' = Append(calls, RunSshCommandCall(opts, rc))
         /\ IF ConnectFailed(rc)
            THEN Exit(1) /\ err' = err \cup {"Failed to connect"}
            ELSE pc' = "mkdir" /\ UNCHANGED <<exitCode, err>>
    /\ UNCHANGED <<runs, opts, target_found, argi, env, home, key_path, key_content,
                   out, remote, prev>>
    /\ UNCHANGED <<fn_in, fn_out>>

\* copy_key_to_server: mkdir -p ~/.ssh && chmod 700 ~/.ssh (lines 255-259);
\* the status of system() is dropped
MakeDir ==
    /\ pc = "mkdir"
    /\ \E rc \in ExitStatuses :
         calls' = Append(calls, CopyKeyCall("mkdir", opts, rc, <<>>))
    /\ out' = out \cup {"Creating ~/.ssh directory..."}
    /\ pc' = IF ForcePath(opts) THEN "append" ELSE "check"
    /\ UNCHANGED <<runs, opts, target_found, argi, env, home, key_path, key_content,
                   exitCode, err, remote, prev>>
    /\ UNCHANGED <<fn_in, fn_out>>

\* main after copy_key_to_server returned res, having printed the messages
\* printed (lines 459-478 up to the call of test_connection)
AfterCopy(res, printed) ==
    IF CopySucceeded(res)
    THEN IF ~opts.quiet
         THEN /\ out' = out \cup printed \cup {"Key copied successfully!"}
              /\ pc' = "keytest"
              /\ UNCHANGED <<exitCode, err>>
         ELSE Exit(0) /\ out' = out \cup printed /\ UNCHANGED err
    ELSE /\ Exit(1)
         /\ out' = out \cup printed
         /\ err' = err \cup {"Error copying key"}

\* copy_key_to_server, non-force: cat of the remote file through _popen and
\* the substring test (lines 267-283); a key that is found returns 0 to main
CheckExisting ==
    /\ pc = "check"
    /\ \/ \* _popen returns NULL: nothing is run, nothing is compared
          /\ pc' = "append"
          /\ UNCHANGED <<calls, out, err, exitCode>>
       \/ \E rc \in ExitStatuses :
            LET existing_keys == IF rc = 0 THEN strncpy(remote, MAX_KEY_SIZE - 1)
                                 ELSE <<>>
            IN /\ calls' = Append(calls, CopyKeyCall("read", opts, rc, existing_keys))
               /\ IF KeyExists(existing_keys, key_content)
                  THEN AfterCopy(0, {"Key already exists on server"})
                  ELSE pc' = "append" /\ UNCHANGED <<out, err, exitCode>>
    /\ UNCHANGED <<runs, opts, target_found, argi, env, home, key_path, key_content,
                   remote, prev>>
    /\ UNCHANGED <<fn_in, fn_out>>

\* copy_key_to_server: echo '<escaped key>' >> ~/.ssh/authorized_keys &&
\* chmod 600 (lines 261-265 and 285-288), its status returned to main.
\* A zero status means the line was stored; a non-zero one leaves the file
\* as it was or, when only the chmod failed, with the line stored.
AppendKey ==
    /\ pc = "append"
    /\ \E rc \in ExitStatuses, stored \in BOOLEAN :
         LET echo == RemoteEcho(escape_key(key_content, MAX_KEY_SIZE), remote)
         IN /\ rc = 0 => (stored /\ echo.ok)
            /\ stored => echo.ok
            /\ remote' = IF stored THEN echo.file ELSE remote
            /\ calls' = Append(calls, CopyKeyCall("append", opts, rc, <<>>))
            /\ AfterCopy(rc, {"Adding key to authorized_keys..."})
    /\ UNCHANGED <<runs, opts, target_found, argi, env, home, key_path, key_content,
                   prev>>
    /\ UNCHANGED <<fn_in, fn_out>>

\* test_connection and the end of main (lines 293-318, 465-478)
KeyTest ==
    /\ pc = "keytest"
    /\ \E rc \in ExitStatuses :
         /\ calls' = Append(calls, TestConnectionCall(opts, home, rc))
         /\ out' = out \cup {"Testing connection with key..."}
                \cup (IF rc = 0 THEN {"Connection with key works!"}
                      ELSE {"Connection with key failed."})
         /\ Exit(ExitAfterKeyTest(rc))
    /\ UNCHANGED <<runs, opts, target_found, argi, env, home, key_path, key_content,
                   err, remote, prev>>
    /\ UNCHANGED <<fn_in, fn_out>>

\* every ssh command of the finished invocation returned 0
AllCallsOk == \A i \in 1..Len(calls) : calls[i].rc = 0
CountOp(op) == Cardinality({i \in 1..Len(calls) : calls[i].op = op})

\* the program is started again against the same remote: a new process with
\* its own command line; prev keeps what the finished invocation did when it
\* ran its remote commands and all of them succeeded
Restart ==
    /\ pc = "done"
    /\ runs < MaxRuns
    /\ runs' = runs + 1
    /\ prev' = IF exitCode = 0 /\ calls # <<>> /\ AllCallsOk
               THEN <<[key |-> key_content, force |-> opts.force,
                       appends |-> CountOp("append")]>>
               ELSE <<>>
    /\ pc' = "args"
    /\ opts' = ZeroOpts
    /\ target_found' = FALSE
    /\ argi' = 0
    /\ env' = Null
    /\ home' = Null
    /\ key_path' = <<>>
    /\ key_content' = <<>>
    /\ exitCode' = 0
    /\ calls' = <<>>
    /\ out' = {}
    /\ err' = {}
    /\ UNCHANGED <<remote, fn_in, fn_out>>

Next ==
    \/ ParseArg
    \/ ArgsEnd
    \/ Prepare
    \/ TestConnection
    \/ MakeDir
    \/ CheckExisting
    \/ AppendKey
    \/ KeyTest
    \/ Restart

Spec == Init /\ [][Next]_vars

(* ----------------- the escaping of the key, on its own ------------------ *)
\* the state of the variables that a function applied on its own leaves alone
Idle ==
    /\ runs = 1 /\ opts = ZeroOpts /\ target_found = FALSE /\ argi = 0
    /\ env = Null /\ home = Null /\ key_path = <<>> /\ key_content = <<>>
    /\ exitCode = 0 /\ calls = <<>> /\ out = {} /\ err = {}
    /\ remote = <<>> /\ prev = <<>>

SeqsUpTo(alphabet, n) == UNION {[1..k -> alphabet] : k \in 0..n}

\* key texts that fit key_content: at most KeyBufSize - 1 characters
EscapeKeys == SeqsUpTo({"a", Quote}, KeyBufSize - 1)

InitEscape ==
    /\ pc = "escape"
    /\ fn_in \in EscapeKeys
    /\ fn_out = <<>>
    /\ Idle

\* copy_key_to_server: the escaping of key_content into escaped_key
\* (lines 225-245)
EscapeKey ==
    /\ pc = "escape"
    /\ fn_out' = escape_key(fn_in, KeyBufSize)
    /\ pc' = "escaped"
    /\ UNCHANGED <<runs, opts, target_found, argi, env, home, key_path,
                   key_content, exitCode, calls, out, err, remote, prev, fn_in>>

NextEscape == EscapeKey

SpecEscape == InitEscape /\ [][NextEscape]_vars

(* --------------- the resolution of the key path, on its own ------------ *)
RECURSIVE Concat(_)
Concat(pieces) == IF pieces = <<>> THEN <<>> ELSE Head(pieces) \o Concat(Tail(pieces))

\* the values of -i: non-empty paths with ".pub" at the end, in the middle,
\* several times or not at all
IdentityPaths ==
    {Concat(ps) : ps \in SeqsUpTo({<<"k">>, <<"/">>, DotPub}, MaxPieces)} \ {<<>>}

InitKeyPath ==
    /\ pc = "keypath"
    /\ fn_in \in IdentityPaths
    /\ fn_out = <<>>
    /\ Idle

\* parse_args storing the value of -i (line 336) and get_public_key_path
\* called by main (line 407)
ResolveKeyPath ==
    /\ pc = "keypath"
    /\ \E userprofile \in UserProfiles :
         fn_out' = get_public_key_path(
                       [ZeroOpts EXCEPT !.identity_file = strncpy(fn_in, MAX_PATH_LEN - 1)],
                       userprofile)
    /\ pc' = "resolved"
    /\ UNCHANGED <<runs, opts, target_found, argi, env, home, key_path,
                   key_content, exitCode, calls, out, err, remote, prev, fn_in>>

NextKeyPath == ResolveKeyPath

SpecKeyPath == InitKeyPath /\ [][NextKeyPath]_vars

(* ------------------------------ properties ----------------------------- *)
Calls == 1..Len(calls)
Issued(op) == \E i \in Calls : calls[i].op = op
\* the connectivity test of this invocation ran and returned 0
Connected == \E i \in Calls : calls[i].op = "test" /\ calls[i].rc = 0
\* the key file is present but holds nothing besides white space
BlankFile(file) == file # Null /\ trim_string(file[1]) = <<>>
KeyLine(key) == key \o <<"\n">>
EndsWith(s, t) == Len(s) >= Len(t) /\ SubSeq(s, Len(s) - Len(t) + 1, Len(s)) = t

\* C1: in a run without force and without dry_run whose connectivity test
\* succeeded, if the remote content read by the run contains the trimmed key
\* as a substring, then no append command is run, the key is reported as
\* already present, and the run ends with exit code 0.
C1_PresentKeyIsNotAppended ==
    \A i \in Calls :
        (/\ calls[i].op = "read"
         /\ ~opts.force /\ ~opts.dry_run /\ Connected
         /\ strstr(calls[i].output, key_content) # 0)
        => /\ ~Issued("append")
           /\ "Key already exists on server" \in out
           /\ pc \in {"keytest", "done"}
           /\ (pc = "done" => exitCode = 0)

\* C1 witness: the key "a" sits inside the line "xab" of the remote file, the
\* run has ended with 0 and nothing was appended.
C1_Witness ==
    /\ pc = "done" /\ exitCode = 0
    /\ key_content = <<"a">>
    /\ remote = <<"x", "a", "b", "\n">>
    /\ ~opts.force
    /\ Issued("read") /\ ~Issued("append")
    /\ "Key already exists on server" \in out

\* C2: after a first run without force that appended the key and whose
\* remote commands all succeeded, a second run without force to a named host
\* with the same non-empty key, which read the remote file and whose remote
\* commands all succeeded, appends nothing (one append over the two runs)
\* and runs no command that changes the remote (no append, no mkdir/chmod
\* of ~/.ssh).
C2_SecondRunChangesNothing ==
    (/\ prev # <<>>
     /\ pc = "done" /\ exitCode = 0
     /\ ~prev[1].force /\ ~opts.force
     /\ prev[1].key # <<>> /\ key_content = prev[1].key
     /\ prev[1].appends = 1
     /\ opts.host # <<>>
     /\ Issued("read") /\ AllCallsOk)
    => /\ prev[1].appends + CountOp("append") = 1
       /\ ~Issued("append")
       /\ ~Issued("mkdir")

\* C3: with force (and no dry_run), once the connectivity test succeeded
\* the remote file is never read and the append command is always run; two
\* consecutive successful force runs with the same key leave the key line
\* twice at the end of the remote file.
C3_ForceAlwaysAppends ==
    /\ opts.force => ~Issued("read")
    /\ (opts.force /\ ~opts.dry_run /\ Connected /\ pc \in {"keytest", "done"})
       => CountOp("append") = 1
    /\ (/\ prev # <<>> /\ prev[1].force /\ opts.force
        /\ pc = "done" /\ exitCode = 0 /\ Issued("append") /\ AllCallsOk
        /\ key_content = prev[1].key)
       => /\ prev[1].appends = 1
          /\ EndsWith(remote, KeyLine(key_content) \o KeyLine(key_content))

\* C3 witness: the remote file already held the key text and two successful
\* force runs with key "ab" each added the line again.
C3_Witness ==
    /\ pc = "done" /\ exitCode = 0
    /\ prev # <<>> /\ prev[1].force /\ opts.force /\ AllCallsOk
    /\ key_content = <<"a", "b">> /\ prev[1].key = <<"a", "b">>
    /\ remote = <<"x", "a", "b", "\n", "a", "b", "\n", "a", "b", "\n">>

\* C4: in a run with dry_run set no ssh command is ever run, whatever force
\* and the other flags are.
C4_DryRunRunsNothing ==
    opts.dry_run => calls = <<>>

\* C4 witness: a dry run with force that got past the argument parsing and
\* ended after printing the dry-run notice.
C4_Witness ==
    /\ pc = "done" /\ exitCode = 0
    /\ opts.dry_run /\ opts.force
    /\ "[DRY RUN]" \in out
    /\ calls = <<>>

C6_FailedConnectionIsFatal ==
    /\ CountOp("test") <= 1
    /\ \A i \in Calls :
         (calls[i].op = "test" /\ calls[i].rc # 0)
         => (pc = "done" /\ exitCode = 1 /\ Len(calls) = 1)

\* C6 witness: the connectivity test failed and the run ended.
C6_Witness ==
    /\ pc = "done" /\ exitCode = 1
    /\ Len(calls) = 1 /\ calls[1].op = "test" /\ calls[1].rc # 0
    /\ "Failed to connect" \in err

\* C7: apart from the key test after the append, an ssh command to a named
\* host that fails (connectivity test, mkdir, read of a remote file that
\* exists, append) is the last one of the run, which ends with exit code 1;
\* no ssh command is run more than once in a run.
C7_AnyFailedCallAborts ==
    /\ \A op \in {"test", "mkdir", "read", "append", "keytest"} : CountOp(op) <= 1
    /\ \A i \in Calls :
         (/\ calls[i].op # "keytest"
          /\ calls[i].host # <<>>
          /\ calls[i].rc # 0
          /\ (calls[i].op = "read" => remote # <<>>))
         => (i = Len(calls) /\ pc = "done" /\ exitCode = 1)

\* C8: once the append command returned 0 the run ends with exit code 0
\* whether the key test after it succeeds or fails; a failed key test only
\* prints a message on stdout.
C8_KeyTestFailureIsNotFatal ==
    (pc = "done" /\ \E i \in Calls : calls[i].op = "append" /\ calls[i].rc = 0)
    => /\ exitCode = 0
       /\ err = {}
       /\ \A i \in Calls :
            (calls[i].op = "keytest" /\ calls[i].rc # 0)
            => "Connection with key failed." \in out

\* C8 witness: the append succeeded, the key test failed, the run ended 0.
C8_Witness ==
    /\ pc = "done" /\ exitCode = 0
    /\ \E i \in Calls : calls[i].op = "append" /\ calls[i].rc = 0
    /\ \E i \in Calls : calls[i].op = "keytest" /\ calls[i].rc # 0
    /\ "Connection with key failed." \in out

\* C9: every ssh command of a run is run with a non-empty host (a command
\* line without a usable host fails in parse_args before any ssh command).
C9_HostNonEmptyOnEveryCall ==
    \A i \in Calls : calls[i].host # <<>>

\* C10: when the key file that a run with a host reads is present but blank
\* (no bytes, or only spaces, tabs and line breaks), the run ends with exit
\* code 1 and runs no ssh command.
C10_BlankKeyIsFatal ==
    (/\ env # Null /\ env[1].ssh /\ ~opts.dry_run
     /\ opts.host # <<>>
     /\ BlankFile(env[1].pub))
    => (calls = <<>> /\ pc = "done" /\ exitCode = 1)

\* the key path without a trailing ".pub"
StripPubSuffix(path) ==
    IF EndsWith(path, DotPub) THEN SubSeq(path, 1, Len(path) - Len(DotPub)) ELSE path

\* C11: when dry_run is not set, the ssh client is found and the resolved
\* public key file does not exist, the run ends with exit code 1 without any
\* ssh command, and stderr names the private key and the ssh-keygen command
\* exactly when the file named by the key path without its trailing ".pub"
\* exists.
C11_MissingKeyNamesSibling ==
    (/\ pc = "done" /\ ~opts.dry_run
     /\ env # Null /\ env[1].ssh /\ env[1].pub = Null)
    => /\ exitCode = 1
       /\ calls = <<>>
       /\ "Public key not found" \in err
       /\ ("Private key found" \in err) = ("Generate public key" \in err)
       /\ ("Private key found" \in err)
          = file_exists(StripPubSuffix(key_path), key_path, env[1].pub, env[1].files)

\* C12: in quiet mode nothing but errors is printed (no dry-run notice, no
\* directory, adding, already-present, success or key-test message; the usage
\* text that goes with an error aside), and quiet changes only what is
\* printed: a quiet run whose copy succeeded still runs the key test.
C12_QuietPrintsOnlyErrors ==
    opts.quiet
    => /\ out \subseteq {"help"}
       /\ (pc = "done" /\ exitCode = 0 /\ Issued("mkdir")) => Issued("keytest")

\* C13: every ssh command of a run carries the port flag exactly when the
\* (positive) port is not 22, the -F flag exactly when a configuration file
\* was given and the -o flag exactly when extra options were given.
C13_EveryCallCarriesAllFlags ==
    \A i \in Calls :
        /\ opts.port > 0 => ((calls[i].port # Null) = (opts.port # DEFAULT_PORT))
        /\ (calls[i].port # Null) => calls[i].port = Some(opts.port)
        /\ (calls[i].config # Null) = (opts.ssh_config # <<>>)
        /\ (calls[i].config # Null) => calls[i].config = Some(opts.ssh_config)
        /\ (calls[i].options # Null) = (opts.ssh_options # <<>>)
        /\ (calls[i].options # Null) => calls[i].options = Some(opts.ssh_options)

\* every single quote replaced by '\'' and every other character copied
RECURSIVE QuoteReplaced(_)
QuoteReplaced(key) ==
    IF key = <<>> THEN <<>>
    ELSE (IF Head(key) = Quote THEN EscapedQuote ELSE <<Head(key)>>)
         \o QuoteReplaced(Tail(key))

\* C14: for every key text that fits the key buffer, the escaped text is the
\* key with every single quote replaced by '\'' and every other character
\* unchanged, and the word '<escaped>' read by the rules of the POSIX shell
\* is the key text again.
C14_EscapeRoundTrips ==
    pc = "escaped"
    => /\ fn_out = QuoteReplaced(fn_in)
       /\ LET w == ShWord(<<Quote>> \o fn_out \o <<Quote>>, FALSE, <<>>)
          IN w.ok /\ w.text = fn_in

\* C15: for every non-empty identity path the resolved key path is the path
\* itself when it ends in ".pub", and the path followed by one ".pub"
\* otherwise, also when ".pub" occurs before its end.
C15_PubSuffixAppendedOnce ==
    pc = "resolved"
    => fn_out = IF EndsWith(fn_in, DotPub) THEN fn_in ELSE fn_in \o DotPub

\* the place of an ssh command in the order of a run
Rank(op) ==
    CASE op = "test" -> 1 [] op = "mkdir" -> 2 [] op = "read" -> 3
      [] op = "append" -> 4 [] op = "keytest" -> 5

\* C16: the ssh commands of a run come in the order connectivity test, read
\* of the remote file (never with force), append, key test; and whenever the
\* key test runs (for a non-empty key and a named host), an append command
\* was run before it in the same run and returned 0.
C16_KeyTestOnlyAfterAppend ==
    /\ \A i, j \in Calls : i < j => Rank(calls[i].op) < Rank(calls[j].op)
    /\ opts.force => ~Issued("read")
    /\ \A j \in Calls :
         (calls[j].op = "keytest" /\ key_content # <<>> /\ opts.host # <<>>)
         => \E i \in 1..(j - 1) : calls[i].op = "append" /\ calls[i].rc = 0

====
